---- MODULE Spec2Model ----
(***************************************************************************)
(* Post service of the blog server (src/src/modules/post/post.service.ts). *)
(*                                                                         *)
(* The database is the state: the post, comment and user tables.  Every    *)
(* request is an asynchronous task that suspends at each database call;    *)
(* one action of the model is the code from one await to the next, so the  *)
(* calls of different requests interleave exactly at the awaits.           *)
(*                                                                         *)
(* prisma.$transaction(async tx => ...) is an interactive transaction at   *)
(* the database's default isolation (no isolationLevel is passed): a row   *)
(* written inside it stays locked, and its new image invisible to others,  *)
(* until the commit; every statement reads what is committed when it runs. *)
(***************************************************************************)
EXTENDS Integers, Sequences, FiniteSets, TLC

VARIABLES
    posts,      \* post table: id -> row, DOMAIN posts = the ids that exist
    nextId,     \* the next fresh post id
    comments,   \* comment table: id -> row
    users,      \* user table: id -> row
    now,        \* the server clock
    reqs,       \* per request slot: where its handler stands, and its locals
    ret,        \* what the last step returned or threw to its caller, if anything
    origin,     \* history: id -> the userId createPost was given, and the
                \* views value createPost or updatePost last stored
    visits,     \* history: id -> getPostById transactions committed on the
                \* post since that views value was stored
    snaps       \* history: slot -> the figures of every committed state of
                \* the post table since the slot's getStats call began

vars == <<posts, nextId, comments, users, now, reqs, ret, origin, visits,
          snaps>>

----------------------------------------------------------------------------
(* Bounds *)

MaxPosts == 2
MaxViews == 2
NumProcs == 2

PostIds == 1..MaxPosts
Procs == 1..NumProcs

UserIds == {"u1", "u2"}

(* parentId: null *)
NoParent == 0

----------------------------------------------------------------------------
(* Strings are sequences of characters *)

Str_a == <<"a">>
Str_b == <<"b">>
Str_aB == <<"a", "B">>
Str_A == <<"A">>
Str_B == <<"B">>
Str_x == <<"x">>
Str_y == <<"y">>
Str_empty == <<>>

LowerChar(c) == IF c = "A" THEN "a" ELSE IF c = "B" THEN "b" ELSE c

Lower(str) == [i \in DOMAIN str |-> LowerChar(str[i])]

(* contains: sub occurs in str as a substring *)
Contains(str, sub) ==
    \E i \in 1..(Len(str) - Len(sub) + 1) :
        SubSeq(str, i, i + Len(sub) - 1) = sub

(* contains with mode: "insensitive" *)
ContainsInsensitive(str, sub) == Contains(Lower(str), Lower(sub))

(* Partial<Post>: a payload is a function from some of the field names *)
EmptyData == [f \in {} |-> TRUE]

Without(data, field) == [f \in (DOMAIN data) \ {field} |-> data[f]]

(* prisma.post.update({data}): the fields present in data replace the row's *)
Merge(row, data) ==
    [f \in DOMAIN row |-> IF f \in DOMAIN data THEN data[f] ELSE row[f]]

Extend(table, id, row) ==
    [i \in (DOMAIN table) \cup {id} |-> IF i = id THEN row ELSE table[i]]

Remove(table, id) == [i \in (DOMAIN table) \ {id} |-> table[i]]

----------------------------------------------------------------------------
(* Request slots *)

Idle == [pc |-> "idle"]

NoRet == [op |-> "none"]

Free(p) == reqs[p] = Idle

(* The handler of slot p returns result (outcome "ok") or throws *)
Return(p, op, args, outcome, result) ==
    /\ reqs' = [reqs EXCEPT ![p] = Idle]
    /\ ret' = [op |-> op, args |-> args, outcome |-> outcome,
               result |-> result]

(* The handler of slot p suspends at its next database call *)
Await(p, locals) ==
    /\ reqs' = [reqs EXCEPT ![p] = locals]
    /\ ret' = NoRet

NoResult == EmptyData

(* Mutant: the increment takes no row lock, as a read followed by a write *)
Locked_Never(postId) == FALSE

(* The row postId is locked by a getPostById transaction not yet committed *)
Locked(postId) ==
    \E q \in Procs :
        /\ reqs[q].pc \in {"getPostById_find", "getPostById_commit"}
        /\ reqs[q].args.postId = postId

----------------------------------------------------------------------------
(* The history of the post table that a getStats call in progress overlaps *)

RECURSIVE SumViewsOf(_, _)
SumViewsOf(table, ids) ==
    IF ids = {} THEN 0
    ELSE LET id == CHOOSE x \in ids : TRUE
         IN table[id].views + SumViewsOf(table, ids \ {id})

(* The figures getStats reports on posts, taken of one state of the table *)
Figures(table, startOfToday, endOfToday) ==
    LET Count(status) ==
            Cardinality({id \in DOMAIN table : table[id].status = status}) IN
    [totalPosts |-> Cardinality(DOMAIN table),
     publishedPosts |-> Count("PUBLISHED"),
     draftPosts |-> Count("DTAFT"),
     archivedPosts |-> Count("ARCHIVED"),
     todayPosts |-> Cardinality({id \in DOMAIN table :
                        /\ table[id].createdAt >= startOfToday
                        /\ table[id].createdAt <= endOfToday}),
     totalViews |-> SumViewsOf(table, DOMAIN table)]

InStats(req) == req.pc = "getStats_query"

(* Every step records the table it leaves for the getStats calls under way *)
Observe ==
    snaps' = [p \in Procs |->
        IF InStats(reqs'[p])
        THEN (IF InStats(reqs[p]) THEN snaps[p] ELSE {})
             \cup {Figures(posts', reqs'[p].startOfToday, reqs'[p].endOfToday)}
        ELSE {}]

----------------------------------------------------------------------------
(* createPost *)

CreateRow(data, userId) ==
    [f \in {"title", "content", "tags", "status", "isFeatured", "views",
            "authorId", "createdAt"} |->
        IF f = "authorId" THEN userId
        ELSE IF f = "createdAt" THEN now
        ELSE data[f]]

createPost(p, data, userId) ==
    /\ Free(p)
    /\ nextId <= MaxPosts
    /\ LET row == CreateRow(data, userId) IN
        /\ posts' = Extend(posts, nextId, row)
        /\ origin' = Extend(origin, nextId,
                            [userId |-> userId, views |-> row.views])
        /\ visits' = Extend(visits, nextId, 0)
        /\ Return(p, "createPost", [data |-> data, userId |-> userId],
                     "ok", [id |-> nextId, row |-> row])
    /\ nextId' = nextId + 1
    /\ UNCHANGED <<comments, users, now>>
    /\ Observe

----------------------------------------------------------------------------
(* updatePost *)

(* Mutant: the admin is not exempted from the ownership check *)
NotOwner_NoAdmin(postData, authorId, isAdmin) ==
    postData.authorId # authorId

NotOwner(postData, authorId, isAdmin) ==
    ~isAdmin /\ postData.authorId # authorId

(* Mutant: isFeatured is left in a non-admin's payload *)
StripFeatured_Kept(data, isAdmin) == data

StripFeatured(data, isAdmin) ==
    IF ~isAdmin THEN Without(data, "isFeatured") ELSE data

updatePost_find(p, postId, data, authorId, isAdmin) ==
    /\ Free(p)
    /\ LET args == [postId |-> postId, data |-> data, authorId |-> authorId,
                    isAdmin |-> isAdmin] IN
        IF postId \notin DOMAIN posts
        THEN Return(p, "updatePost", args, "NotFound", NoResult)
        ELSE LET postData == [id |-> postId,
                              authorId |-> posts[postId].authorId] IN
            IF NotOwner(postData, authorId, isAdmin)
            THEN Return(p, "updatePost", args, "NotOwner", NoResult)
            ELSE Await(p, [pc |-> "updatePost_update", args |-> args,
                           id |-> postData.id,
                           data |-> StripFeatured(data, isAdmin)])
    /\ UNCHANGED <<posts, nextId, comments, users, now, origin, visits>>
    /\ Observe

updatePost_update(p) ==
    /\ reqs[p].pc = "updatePost_update"
    /\ ~Locked(reqs[p].id)
    /\ LET id == reqs[p].id IN
        IF id \notin DOMAIN posts
        THEN /\ Return(p, "updatePost", reqs[p].args, "NotFound", NoResult)
             /\ UNCHANGED <<posts, origin, visits>>
        ELSE LET row == Merge(posts[id], reqs[p].data) IN
             /\ posts' = [posts EXCEPT ![id] = row]
             /\ Return(p, "updatePost", reqs[p].args, "ok", row)
             /\ IF "views" \in DOMAIN reqs[p].data
                THEN /\ origin' = [origin EXCEPT ![id].views = row.views]
                     /\ visits' = [visits EXCEPT ![id] = 0]
                ELSE UNCHANGED <<origin, visits>>
    /\ UNCHANGED <<nextId, comments, users, now>>
    /\ Observe

----------------------------------------------------------------------------
(* deletePost *)

deletePost_find(p, postId, authorId, isAdmin) ==
    /\ Free(p)
    /\ LET args == [postId |-> postId, authorId |-> authorId,
                    isAdmin |-> isAdmin] IN
        IF postId \notin DOMAIN posts
        THEN Return(p, "deletePost", args, "NotFound", NoResult)
        ELSE LET postData == [id |-> postId,
                              authorId |-> posts[postId].authorId] IN
            IF NotOwner(postData, authorId, isAdmin)
            THEN Return(p, "deletePost", args, "NotOwner", NoResult)
            ELSE Await(p, [pc |-> "deletePost_delete", args |-> args])
    /\ UNCHANGED <<posts, nextId, comments, users, now, origin, visits>>
    /\ Observe

deletePost_delete(p) ==
    /\ reqs[p].pc = "deletePost_delete"
    /\ ~Locked(reqs[p].args.postId)
    /\ LET id == reqs[p].args.postId IN
        IF id \notin DOMAIN posts
        THEN /\ Return(p, "deletePost", reqs[p].args, "NotFound", NoResult)
             /\ UNCHANGED <<posts, origin, visits>>
        ELSE /\ posts' = Remove(posts, id)
             /\ origin' = Remove(origin, id)
             /\ visits' = Remove(visits, id)
             /\ Return(p, "deletePost", reqs[p].args, "ok", posts[id])
    /\ UNCHANGED <<nextId, comments, users, now>>
    /\ Observe

----------------------------------------------------------------------------
(* getPostById *)

Approved(c) == comments[c].status = "APPROVED"

(* orderBy: { createdAt: "asc" } over a set of comment ids; comment ids are *)
(* handed out in creation order, so a smaller id is an earlier createdAt    *)
RECURSIVE OldestFirst(_)
OldestFirst(S) ==
    IF S = {} THEN <<>>
    ELSE LET c == CHOOSE x \in S : \A y \in S : comments[x].createdAt <= comments[y].createdAt
         IN <<c>> \o OldestFirst(S \ {c})

(* orderBy: { createdAt: "desc" } *)
RECURSIVE NewestFirst(_)
NewestFirst(S) ==
    IF S = {} THEN <<>>
    ELSE LET c == CHOOSE x \in S : \A y \in S : comments[x].createdAt >= comments[y].createdAt
         IN <<c>> \o NewestFirst(S \ {c})

(* Mutant: the replies are included without the status filter *)
ApprovedReplies_Unfiltered(c) ==
    OldestFirst({r \in DOMAIN comments : comments[r].parentId = c})

(* include: { replies: { where: { status: APPROVED }, orderBy: asc } } *)
ApprovedReplies(c) ==
    OldestFirst({r \in DOMAIN comments :
                    comments[r].parentId = c /\ Approved(r)})

(* include: { comments: { where: { parentId: null, status: APPROVED }, *)
(*                        orderBy: desc } }                            *)
TopLevel(postId) ==
    NewestFirst({c \in DOMAIN comments :
                    /\ comments[c].postId = postId
                    /\ comments[c].parentId = NoParent
                    /\ Approved(c)})

Range(seq) == {seq[i] : i \in DOMAIN seq}

(* The returned tree: the top-level comments in order, each one's replies, *)
(* and each reply's replies; nothing deeper is included                    *)
CommentTree(postId) ==
    LET top == TopLevel(postId)
        lvl2 == UNION {Range(ApprovedReplies(c)) : c \in Range(top)}
    IN [top |-> top,
        replies |-> [c \in Range(top) |-> ApprovedReplies(c)],
        nested |-> [c \in lvl2 |-> ApprovedReplies(c)]]

(* _count: { select: { comments: true } } *)
CommentCount(postId) ==
    Cardinality({c \in DOMAIN comments : comments[c].postId = postId})

Increment(row) == [row EXCEPT !.views = @ + 1]

getPostById_update(p, postId) ==
    /\ Free(p)
    /\ ~Locked(postId)
    /\ IF postId \notin DOMAIN posts
       THEN Return(p, "getPostById", [postId |-> postId], "NotFound", NoResult)
       ELSE /\ posts[postId].views < MaxViews
            /\ visits[postId] < MaxViews
            /\ Await(p, [pc |-> "getPostById_find",
                         args |-> [postId |-> postId],
                         row |-> Increment(posts[postId])])
    /\ UNCHANGED <<posts, nextId, comments, users, now, origin, visits>>
    /\ Observe

getPostById_find(p) ==
    /\ reqs[p].pc = "getPostById_find"
    /\ LET postId == reqs[p].args.postId IN
        Await(p, [pc |-> "getPostById_commit", args |-> reqs[p].args,
                  row |-> reqs[p].row,
                  postData |-> [post |-> reqs[p].row,
                                comments |-> CommentTree(postId),
                                count |-> CommentCount(postId)]])
    /\ UNCHANGED <<posts, nextId, comments, users, now, origin, visits>>
    /\ Observe

getPostById_commit(p) ==
    /\ reqs[p].pc = "getPostById_commit"
    /\ LET postId == reqs[p].args.postId IN
        /\ posts' = [posts EXCEPT ![postId] = reqs[p].row]
        /\ visits' = [visits EXCEPT ![postId] = @ + 1]
        /\ Return(p, "getPostById", reqs[p].args, "ok", reqs[p].postData)
    /\ UNCHANGED <<nextId, comments, users, now, origin>>
    /\ Observe

----------------------------------------------------------------------------
(* getAllPost *)

(* An optional argument is a field the argument record may lack *)
Has(args, field) == field \in DOMAIN args

(* Mutant: isFeatured is tested for truthiness, so false filters nothing *)
AndConditions_Truthy(args) ==
    (IF Has(args, "search") /\ args.search # Str_empty
        THEN <<[kind |-> "search", value |-> args.search]>> ELSE <<>>)
    \o (IF Len(args.tags) > 0
        THEN <<[kind |-> "tags", value |-> args.tags]>> ELSE <<>>)
    \o (IF Has(args, "isFeatured") /\ args.isFeatured
        THEN <<[kind |-> "isFeatured", value |-> args.isFeatured]>> ELSE <<>>)
    \o (IF Has(args, "status") /\ args.status # ""
        THEN <<[kind |-> "status", value |-> args.status]>> ELSE <<>>)
    \o (IF Has(args, "authorId") /\ args.authorId # ""
        THEN <<[kind |-> "authorId", value |-> args.authorId]>> ELSE <<>>)

(* The list of AND clauses the handler pushes, in its order *)
AndConditions(args) ==
    (IF Has(args, "search") /\ args.search # Str_empty
        THEN <<[kind |-> "search", value |-> args.search]>> ELSE <<>>)
    \o (IF Len(args.tags) > 0
        THEN <<[kind |-> "tags", value |-> args.tags]>> ELSE <<>>)
    \o (IF Has(args, "isFeatured")
        THEN <<[kind |-> "isFeatured", value |-> args.isFeatured]>> ELSE <<>>)
    \o (IF Has(args, "status") /\ args.status # ""
        THEN <<[kind |-> "status", value |-> args.status]>> ELSE <<>>)
    \o (IF Has(args, "authorId") /\ args.authorId # ""
        THEN <<[kind |-> "authorId", value |-> args.authorId]>> ELSE <<>>)

(* One clause of the where, on one row *)
Satisfies(row, cond) ==
    CASE cond.kind = "search" ->
            \/ ContainsInsensitive(row.title, cond.value)
            \/ ContainsInsensitive(row.content, cond.value)
            \/ cond.value \in row.tags
      [] cond.kind = "tags" ->
            \A i \in DOMAIN cond.value : cond.value[i] \in row.tags
      [] cond.kind = "isFeatured" -> row.isFeatured = cond.value
      [] cond.kind = "status" -> row.status = cond.value
      [] cond.kind = "authorId" -> row.authorId = cond.value

(* where: { AND: andConditions } over the committed table *)
Where(andConditions) ==
    {id \in DOMAIN posts :
        \A i \in DOMAIN andConditions : Satisfies(posts[id], andConditions[i])}

InOrder(a, b, sortOrder) == IF sortOrder = "asc" THEN a <= b ELSE a >= b

(* orderBy: { [sortBy]: sortOrder }: every order of the ids the database  *)
(* may return; rows equal in the sort field come in any order             *)
OrderBy(ids, sortBy, sortOrder) ==
    {seq \in [1..Cardinality(ids) -> ids] :
        /\ \A i, j \in DOMAIN seq : i # j => seq[i] # seq[j]
        /\ \A i, j \in DOMAIN seq :
                i < j => InOrder(posts[seq[i]][sortBy], posts[seq[j]][sortBy],
                                 sortOrder)}

Min(a, b) == IF a <= b THEN a ELSE b

(* take: limit, skip, and the rows as read *)
Page(seq, skip, limit) ==
    [i \in 1..Min(limit, IF Len(seq) > skip THEN Len(seq) - skip ELSE 0) |->
        [id |-> seq[skip + i], row |-> posts[seq[skip + i]]]]

(* Math.ceil(total / limit) *)
Ceil(total, limit) == (total + limit - 1) \div limit

getAllPost_findMany(p, args) ==
    /\ Free(p)
    /\ LET andConditions == AndConditions(args) IN
        \E seq \in OrderBy(Where(andConditions), args.sortBy, args.sortOrder) :
            Await(p, [pc |-> "getAllPost_count", args |-> args,
                      andConditions |-> andConditions,
                      allPost |-> Page(seq, args.skip, args.limit)])
    /\ UNCHANGED <<posts, nextId, comments, users, now, origin, visits>>
    /\ Observe

(* Mutant: the total is taken from the page that was read *)
Total_FromPage(p) == Len(reqs[p].allPost)

(* prisma.post.count({ where: { AND: andConditions } }) *)
Total(p) == Cardinality(Where(reqs[p].andConditions))

getAllPost_count(p) ==
    /\ reqs[p].pc = "getAllPost_count"
    /\ LET total == Total(p) IN
        Return(p, "getAllPost", reqs[p].args, "ok",
               [data |-> reqs[p].allPost,
                pagination |-> [total |-> total,
                                page |-> reqs[p].args.page,
                                limit |-> reqs[p].args.limit,
                                totalPages |-> Ceil(total, reqs[p].args.limit)]])
    /\ UNCHANGED <<posts, nextId, comments, users, now, origin, visits>>
    /\ Observe

----------------------------------------------------------------------------
(* getMyPosts *)

(* findUniqueOrThrow({ where: { id: authorId, status: "ACTIVE" } }) finds *)
(* a row                                                                   *)
ActiveUser(authorId) ==
    authorId \in DOMAIN users /\ users[authorId].status = "ACTIVE"

PostsOf(authorId) == {id \in DOMAIN posts : posts[id].authorId = authorId}

getMyPosts_findUser(p, authorId) ==
    /\ Free(p)
    /\ IF ~ActiveUser(authorId)
       THEN Return(p, "getMyPosts", [authorId |-> authorId], "NotFound",
                   NoResult)
       ELSE Await(p, [pc |-> "getMyPosts_findMany",
                      args |-> [authorId |-> authorId]])
    /\ UNCHANGED <<posts, nextId, comments, users, now, origin, visits>>
    /\ Observe

getMyPosts_findMany(p) ==
    /\ reqs[p].pc = "getMyPosts_findMany"
    /\ \E seq \in OrderBy(PostsOf(reqs[p].args.authorId), "createdAt", "desc") :
        Await(p, [pc |-> "getMyPosts_aggregate", args |-> reqs[p].args,
                  result |-> [i \in DOMAIN seq |->
                        [id |-> seq[i], row |-> posts[seq[i]],
                         count |-> CommentCount(seq[i])]]])
    /\ UNCHANGED <<posts, nextId, comments, users, now, origin, visits>>
    /\ Observe

getMyPosts_aggregate(p) ==
    /\ reqs[p].pc = "getMyPosts_aggregate"
    /\ LET total == [count |->
                [id |-> Cardinality(PostsOf(reqs[p].args.authorId))]] IN
        Return(p, "getMyPosts", reqs[p].args, "ok",
               [data |-> reqs[p].result, total |-> total])
    /\ UNCHANGED <<posts, nextId, comments, users, now, origin, visits>>
    /\ Observe

----------------------------------------------------------------------------
(* The server clock advances *)

MaxTime == 1

Tick ==
    /\ now < MaxTime
    /\ now' = now + 1
    /\ ret' = NoRet
    /\ UNCHANGED <<posts, nextId, comments, users, reqs, origin, visits>>
    /\ Observe

----------------------------------------------------------------------------
(* getStats *)

TicksPerDay == 1

(* new Date() with setHours(0, 0, 0, 0) and with setHours(23, 59, 59, 999) *)
StartOfDay(t) == t - (t % TicksPerDay)
EndOfDay(t) == StartOfDay(t) + TicksPerDay - 1

CountPosts(P(_)) == Cardinality({id \in DOMAIN posts : P(posts[id])})

RECURSIVE SumViews(_)
SumViews(ids) ==
    IF ids = {} THEN 0
    ELSE LET id == CHOOSE x \in ids : TRUE
         IN posts[id].views + SumViews(ids \ {id})

(* aggregate({ _sum: { views: true } }): null, here <<>>, over no rows *)
AggregateViews ==
    IF DOMAIN posts = {} THEN <<>> ELSE <<SumViews(DOMAIN posts)>>

(* value ?? fallback *)
Coalesce(value, fallback) == IF value = <<>> THEN fallback ELSE value[1]

NumQueries == 11

(* The k-th query of the Promise.all, on what is committed when it runs *)
StatsQuery(k, startOfToday, endOfToday) ==
    CASE k = 1 -> Cardinality(DOMAIN posts)
      [] k = 2 -> LET P(r) == r.status = "PUBLISHED" IN CountPosts(P)
      [] k = 3 -> LET P(r) == r.status = "DTAFT" IN CountPosts(P)
      [] k = 4 -> LET P(r) == r.status = "ARCHIVED" IN CountPosts(P)
      [] k = 5 -> Cardinality(DOMAIN comments)
      [] k = 6 -> Cardinality({c \in DOMAIN comments : Approved(c)})
      [] k = 7 -> Cardinality(DOMAIN users)
      [] k = 8 -> Cardinality({u \in DOMAIN users : users[u].role = "ADMIN"})
      [] k = 9 -> Cardinality({u \in DOMAIN users : users[u].role = "USER"})
      [] k = 10 -> AggregateViews
      [] k = 11 -> LET P(r) == r.createdAt >= startOfToday
                               /\ r.createdAt <= endOfToday
                   IN CountPosts(P)

getStats_begin(p) ==
    /\ Free(p)
    /\ Await(p, [pc |-> "getStats_query", startOfToday |-> StartOfDay(now),
                 endOfToday |-> EndOfDay(now), got |-> <<>>])
    /\ UNCHANGED <<posts, nextId, comments, users, now, origin, visits>>
    /\ Observe

(* The queries run one after the other on the transaction's connection, *)
(* in the order the Promise.all issued them                             *)
getStats_query(p) ==
    /\ reqs[p].pc = "getStats_query"
    /\ Len(reqs[p].got) < NumQueries
    /\ Await(p, [reqs[p] EXCEPT !.got =
            Append(@, StatsQuery(Len(@) + 1, reqs[p].startOfToday,
                                 reqs[p].endOfToday))])
    /\ UNCHANGED <<posts, nextId, comments, users, now, origin, visits>>
    /\ Observe

getStats_commit(p) ==
    /\ reqs[p].pc = "getStats_query"
    /\ Len(reqs[p].got) = NumQueries
    /\ LET got == reqs[p].got IN
        Return(p, "getStats", EmptyData, "ok",
               [totalPosts |-> got[1], publishedPosts |-> got[2],
                draftPosts |-> got[3], archivedPosts |-> got[4],
                totalComments |-> got[5], approvedComment |-> got[6],
                totalUsers |-> got[7], adminCount |-> got[8],
                userCount |-> got[9], todayPosts |-> got[11],
                totalViews |-> Coalesce(got[10], 0)])
    /\ UNCHANGED <<posts, nextId, comments, users, now, origin, visits>>
    /\ Observe

----------------------------------------------------------------------------
(* Spec: create, update, delete and read of posts by concurrent requests *)

NoTable == [i \in {} |-> TRUE]

UserTable ==
    [u \in {"u1", "u2", "u3"} |->
        IF u = "u1" THEN [role |-> "USER", status |-> "ACTIVE"]
        ELSE IF u = "u2" THEN [role |-> "ADMIN", status |-> "ACTIVE"]
        ELSE [role |-> "USER", status |-> "BLOCKED"]]

Init ==
    /\ posts = NoTable
    /\ nextId = 1
    /\ comments = NoTable
    /\ users = UserTable
    /\ now = 0
    /\ reqs = [p \in Procs |-> Idle]
    /\ ret = NoRet
    /\ snaps = [p \in Procs |-> {}]
    /\ origin = NoTable
    /\ visits = NoTable

NewPost(title, isFeatured, views) ==
    [title |-> title, content |-> Str_a, tags |-> {}, status |-> "PUBLISHED",
     isFeatured |-> isFeatured, views |-> views]

(* The request body of createPost: it carries an authorId of its own *)
CreateInputs ==
    {[f \in {"title", "content", "tags", "status", "isFeatured", "views",
             "authorId"} |->
        IF f = "authorId" THEN "u2" ELSE NewPost(Str_a, FALSE, 0)[f]]}

(* The authenticated users who create posts *)
Creators == {"u1"}

(* The request bodies of updatePost *)
UpdateInputs ==
    {[isFeatured |-> TRUE, title |-> Str_b],
     [authorId |-> "u2", views |-> 0]}

Next ==
    \E p \in Procs :
        \/ \E data \in CreateInputs, userId \in Creators :
                createPost(p, data, userId)
        \/ \E postId \in PostIds, data \in UpdateInputs,
              authorId \in UserIds, isAdmin \in BOOLEAN :
                updatePost_find(p, postId, data, authorId, isAdmin)
        \/ updatePost_update(p)
        \/ \E postId \in PostIds, authorId \in UserIds,
              isAdmin \in BOOLEAN :
                deletePost_find(p, postId, authorId, isAdmin)
        \/ deletePost_delete(p)
        \/ \E postId \in PostIds :
                getPostById_update(p, postId)
        \/ getPostById_find(p)
        \/ getPostById_commit(p)

Spec == Init /\ [][Next]_vars

----------------------------------------------------------------------------
(* SpecTree: getPostById over every small comment table *)

MaxComments == 4

CommentIds == 1..MaxComments

CommentStatus == {"APPROVED", "REJECT"}

(* A comment's parent is an earlier comment, or none *)
CommentTables ==
    {t \in [CommentIds -> [postId : PostIds, parentId : {NoParent} \cup CommentIds,
                           status : CommentStatus]] :
        \A c \in CommentIds : t[c].parentId < c}

InitTree ==
    /\ now = 0
    /\ posts = [id \in PostIds |->
                    CreateRow(NewPost(Str_a, FALSE, MaxViews - 1), "u1")]
    /\ nextId = MaxPosts + 1
    /\ \E t \in CommentTables :
            comments = [c \in CommentIds |->
                [postId |-> t[c].postId, parentId |-> t[c].parentId,
                 status |-> t[c].status, createdAt |-> c]]
    /\ users = UserTable
    /\ reqs = [p \in Procs |-> Idle]
    /\ ret = NoRet
    /\ snaps = [p \in Procs |-> {}]
    /\ origin = [id \in PostIds |-> [userId |-> "u1", views |-> MaxViews - 1]]
    /\ visits = [id \in PostIds |-> 0]

NextTree ==
    \E p \in Procs :
        \/ \E postId \in PostIds : getPostById_update(p, postId)
        \/ getPostById_find(p)
        \/ getPostById_commit(p)

SpecTree == InitTree /\ [][NextTree]_vars

----------------------------------------------------------------------------
(* SpecFilter: getAllPost with every combination of filters, over stores  *)
(* of posts that differ in every filtered field                           *)

PostKinds ==
    {[title |-> Str_aB, content |-> Str_b, tags |-> {}, status |-> "PUBLISHED",
      isFeatured |-> FALSE, views |-> 0, authorId |-> "u1"],
     [title |-> Str_b, content |-> Str_A, tags |-> {Str_x}, status |-> "DTAFT",
      isFeatured |-> TRUE, views |-> 1, authorId |-> "u2"],
     [title |-> Str_y, content |-> Str_y, tags |-> {Str_x, Str_y},
      status |-> "PUBLISHED", isFeatured |-> FALSE, views |-> 0,
      authorId |-> "u1"],
     [title |-> Str_y, content |-> Str_y, tags |-> {Str_a},
      status |-> "PUBLISHED", isFeatured |-> TRUE, views |-> 1,
      authorId |-> "u2"],
     [title |-> Str_y, content |-> Str_y, tags |-> {Str_B, Str_x},
      status |-> "ARCHIVED", isFeatured |-> FALSE, views |-> 0,
      authorId |-> "u1"]}

(* An optional argument: absent, or one of values *)
Optional(field, values) ==
    {EmptyData} \cup {[f \in {field} |-> v] : v \in values}

Join(a, b) ==
    [f \in (DOMAIN a) \cup (DOMAIN b) |-> IF f \in DOMAIN a THEN a[f] ELSE b[f]]

(* The query strings: each optional filter absent, empty or set *)
FilterInputs ==
    {Join(Join(Join(Join(search, tags), isFeatured), status), authorId) :
        search \in Optional("search", {Str_empty, Str_a, Str_B, Str_x}),
        tags \in {[tags |-> t] : t \in {Str_empty, <<Str_x>>, <<Str_x, Str_y>>}},
        isFeatured \in Optional("isFeatured", BOOLEAN),
        status \in Optional("status", {"PUBLISHED"}),
        authorId \in Optional("authorId", {"u1"})}

Paging ==
    {[page |-> 2, limit |-> 1, skip |-> 1, sortBy |-> "views",
      sortOrder |-> "asc"],
     [page |-> 1, limit |-> MaxPosts + 1, skip |-> 0, sortBy |-> "createdAt",
      sortOrder |-> "desc"]}

InitFilter ==
    /\ now = 0
    /\ \E n \in 0..MaxPosts : \E kinds \in [1..n -> PostKinds] :
        /\ posts = [id \in 1..n |->
                [f \in (DOMAIN kinds[id]) \cup {"createdAt"} |->
                    IF f = "createdAt" THEN id ELSE kinds[id][f]]]
        /\ nextId = n + 1
        /\ origin = [id \in 1..n |->
                [userId |-> kinds[id].authorId, views |-> kinds[id].views]]
        /\ visits = [id \in 1..n |-> 0]
    /\ comments = NoTable
    /\ users = UserTable
    /\ reqs = [p \in Procs |-> Idle]
    /\ ret = NoRet
    /\ snaps = [p \in Procs |-> {}]

(* One request at a time: the filter is a function of one call's arguments *)
NextFilter ==
    \/ \E filter \in FilterInputs, paging \in Paging :
            getAllPost_findMany(1, Join(filter, paging))
    \/ getAllPost_count(1)

SpecFilter == InitFilter /\ [][NextFilter]_vars

----------------------------------------------------------------------------
(* SpecList: the listings, getAllPost and getMyPosts, while other requests *)
(* create and delete posts                                                 *)

ListInputs ==
    {[tags |-> Str_empty, page |-> 1, limit |-> MaxPosts + 1, skip |-> 0,
      sortBy |-> "createdAt", sortOrder |-> "desc"],
     [tags |-> Str_empty, authorId |-> "u1", page |-> 1, limit |-> 1,
      skip |-> 0, sortBy |-> "createdAt", sortOrder |-> "asc"]}

(* An active user, a blocked one, and an id no user has *)
AuthorInputs == {"u1", "u3", "u9"}

NextList ==
    \/ \E p \in Procs :
        \/ \E data \in CreateInputs, userId \in UserIds :
                createPost(p, data, userId)
        \/ \E postId \in PostIds : deletePost_find(p, postId, "u2", TRUE)
        \/ deletePost_delete(p)
        \/ \E args \in ListInputs : getAllPost_findMany(p, args)
        \/ getAllPost_count(p)
        \/ \E authorId \in AuthorInputs : getMyPosts_findUser(p, authorId)
        \/ getMyPosts_findMany(p)
        \/ getMyPosts_aggregate(p)
    \/ Tick

SpecList == Init /\ [][NextList]_vars

----------------------------------------------------------------------------
(* SpecStats: getStats while other requests create, update, read and      *)
(* delete posts and the clock advances                                    *)

StatsCreateInputs ==
    {[NewPost(Str_a, FALSE, 1) EXCEPT !.status = "PUBLISHED"],
     [NewPost(Str_a, FALSE, 0) EXCEPT !.status = "DTAFT"]}

StatsUpdateInputs == {[status |-> "ARCHIVED"]}

(* One getStats call at a time, in slot 1; the writers run in every slot *)
NextStats ==
    \/ \E p \in Procs :
        \/ \E data \in StatsCreateInputs : createPost(p, data, "u1")
        \/ \E postId \in PostIds, data \in StatsUpdateInputs :
                updatePost_find(p, postId, data, "u2", TRUE)
        \/ updatePost_update(p)
        \/ \E postId \in PostIds : deletePost_find(p, postId, "u2", TRUE)
        \/ deletePost_delete(p)
    \/ getStats_begin(1)
    \/ getStats_query(1)
    \/ getStats_commit(1)
    \/ Tick

SpecStats == Init /\ [][NextStats]_vars

----------------------------------------------------------------------------
(* Steps, as the properties below see them *)

(* Slot p, free before the step, now awaits the database call pc *)
Passes(p, pc) == Free(p) /\ reqs'[p].pc = pc

(* Slot p awaited the database call pc and its handler has now ended *)
Ends(p, pc) == reqs[p].pc = pc /\ reqs'[p] = Idle

(* A handler started and ended in this one step: it threw at its first *)
(* database call, or it makes that call only                            *)
OneStep(op) == reqs' = reqs /\ ret' # ret /\ ret'.op = op

Untouched(id) ==
    \A j \in DOMAIN posts : j # id => j \in DOMAIN posts' /\ posts'[j] = posts[j]

----------------------------------------------------------------------------
(* C1: updatePost and deletePost on an existing post throw the ownership   *)
(* error exactly when the caller is not an admin and is not the author the *)
(* lookup read, and then no post is modified or deleted; every other caller *)
(* passes the check, and the write that follows succeeds on the post (the  *)
(* update leaves it in the table, the delete removes it) whenever the post *)
(* is still there when the write runs.                                     *)

C1_Lookup(op, pc) ==
    /\ \A p \in Procs : Passes(p, pc) =>
            LET a == reqs'[p].args IN
            /\ a.postId \in DOMAIN posts
            /\ a.isAdmin \/ posts[a.postId].authorId = a.authorId
            /\ posts' = posts
    /\ OneStep(op) =>
            LET a == ret'.args IN
            /\ posts' = posts
            /\ ret'.outcome \in {"NotOwner", "NotFound"}
            /\ ret'.outcome = "NotFound" <=> a.postId \notin DOMAIN posts
            /\ ret'.outcome = "NotOwner" <=>
                    /\ a.postId \in DOMAIN posts
                    /\ ~a.isAdmin
                    /\ posts[a.postId].authorId # a.authorId

C1_Write ==
    \A p \in Procs :
        /\ Ends(p, "updatePost_update") /\ reqs[p].id \in DOMAIN posts =>
            /\ ret'.op = "updatePost" /\ ret'.outcome = "ok"
            /\ reqs[p].id \in DOMAIN posts'
            /\ Untouched(reqs[p].id)
        /\ Ends(p, "deletePost_delete") /\ reqs[p].args.postId \in DOMAIN posts =>
            /\ ret'.op = "deletePost" /\ ret'.outcome = "ok"
            /\ reqs[p].args.postId \notin DOMAIN posts'
            /\ Untouched(reqs[p].args.postId)

C1_Ownership ==
    [][/\ C1_Lookup("updatePost", "updatePost_update")
       /\ C1_Lookup("deletePost", "deletePost_delete")
       /\ C1_Write]_vars

(* A caller who is neither admin nor author has just been refused on a    *)
(* post that exists                                                        *)
C1_Witness ==
    /\ ret.op \in {"updatePost", "deletePost"}
    /\ ret.outcome = "NotOwner"
    /\ ret.args.postId \in DOMAIN posts
    /\ ~ret.args.isAdmin
    /\ posts[ret.args.postId].authorId # ret.args.authorId

----------------------------------------------------------------------------
(* C2: every existing post's authorId is the userId given to the           *)
(* createPost call that created it.                                        *)

C2_AuthorImmutable ==
    \A id \in DOMAIN posts : posts[id].authorId = origin[id].userId

----------------------------------------------------------------------------
(* C3: the write of an updatePost call made without isAdmin leaves the     *)
(* post's isFeatured as it was and stores every other field of the         *)
(* payload, and the call succeeds; isFeatured of an existing post changes  *)
(* only in the write of an updatePost call made with isAdmin.              *)

C3_NonAdminWrite ==
    \A p \in Procs :
        (/\ Ends(p, "updatePost_update")
         /\ ~reqs[p].args.isAdmin
         /\ reqs[p].id \in DOMAIN posts) =>
            LET id == reqs[p].id
                data == reqs[p].args.data IN
            /\ ret'.op = "updatePost" /\ ret'.outcome = "ok"
            /\ posts'[id].isFeatured = posts[id].isFeatured
            /\ \A f \in (DOMAIN data) \ {"isFeatured"} : posts'[id][f] = data[f]
            /\ ret'.result = posts'[id]

C3_OnlyAdminChanges ==
    \A id \in (DOMAIN posts) \cap (DOMAIN posts') :
        posts'[id].isFeatured # posts[id].isFeatured =>
            /\ ret'.op = "updatePost" /\ ret'.outcome = "ok"
            /\ ret'.args.isAdmin
            /\ ret'.args.postId = id

C3_FeaturedIsAdminOnly == [][C3_NonAdminWrite /\ C3_OnlyAdminChanges]_vars

(* A non-admin updatePost whose payload asked for another isFeatured has   *)
(* just succeeded: the rest of its payload is stored, isFeatured is not    *)
C3_Witness ==
    /\ ret.op = "updatePost" /\ ret.outcome = "ok"
    /\ ~ret.args.isAdmin
    /\ "isFeatured" \in DOMAIN ret.args.data
    /\ "title" \in DOMAIN ret.args.data
    /\ ret.args.postId \in DOMAIN posts
    /\ posts[ret.args.postId].isFeatured # ret.args.data.isFeatured
    /\ posts[ret.args.postId].title = ret.args.data.title

----------------------------------------------------------------------------
(* C4: the commit of a getPostById transaction raises the post's views by  *)
(* exactly 1 over the committed value and returns the raised value, and    *)
(* touches no other post; a call on an id that does not exist throws and   *)
(* changes no post; and a post's views is always the value last stored by  *)
(* createPost or updatePost plus the number of getPostById calls committed *)
(* on it since, however the calls interleave (no increment is lost).       *)

C4_Commit ==
    \A p \in Procs : Ends(p, "getPostById_commit") =>
        LET id == reqs[p].args.postId IN
        /\ ret'.op = "getPostById" /\ ret'.outcome = "ok"
        /\ id \in DOMAIN posts /\ id \in DOMAIN posts'
        /\ posts'[id].views = posts[id].views + 1
        /\ ret'.result.post.views = posts'[id].views
        /\ Untouched(id)

C4_Missing ==
    OneStep("getPostById") =>
        /\ ret'.outcome = "NotFound"
        /\ ret'.args.postId \notin DOMAIN posts
        /\ posts' = posts

C4_Counted ==
    \A id \in DOMAIN posts : posts[id].views = origin[id].views + visits[id]

C4_ViewsCounted == [][C4_Commit /\ C4_Missing /\ C4_Counted']_vars

(* Two getPostById calls have committed on one post, the second of them    *)
(* just now, while the other request slot is in the middle of a call       *)
C4_Witness ==
    /\ ret.op = "getPostById" /\ ret.outcome = "ok"
    /\ ret.args.postId \in DOMAIN posts
    /\ visits[ret.args.postId] = 2
    /\ ret.result.post.views = 2
    /\ posts[ret.args.postId].views = 2
    /\ \E q \in Procs : ~Free(q)

----------------------------------------------------------------------------
(* C5: in the tree getPostById returns, the top level is exactly the       *)
(* post's APPROVED comments without a parent; every comment of the three   *)
(* levels is APPROVED and hangs under its own parent, so a comment appears *)
(* exactly when it and all its ancestors are APPROVED, it is at most two   *)
(* replies deep, and its top-level ancestor belongs to the post.           *)

(* The chain from comment c up to its top-level ancestor, c first *)
RECURSIVE Chain(_)
Chain(c) ==
    IF comments[c].parentId = NoParent THEN <<c>>
    ELSE <<c>> \o Chain(comments[c].parentId)

Visible(c, postId) ==
    LET ch == Chain(c) IN
    /\ Len(ch) <= 3
    /\ \A i \in DOMAIN ch : comments[ch[i]].status = "APPROVED"
    /\ comments[ch[Len(ch)]].postId = postId

TreeLevels(tree) ==
    [top |-> Range(tree.top),
     replies |-> UNION {Range(tree.replies[c]) : c \in DOMAIN tree.replies},
     nested |-> UNION {Range(tree.nested[c]) : c \in DOMAIN tree.nested}]

C5_Tree(tree, postId) ==
    LET lv == TreeLevels(tree) IN
    /\ lv.top = {c \in DOMAIN comments :
                    /\ comments[c].postId = postId
                    /\ comments[c].parentId = NoParent
                    /\ comments[c].status = "APPROVED"}
    /\ \A c \in lv.top \cup lv.replies \cup lv.nested :
            comments[c].status = "APPROVED"
    /\ \A c \in DOMAIN tree.replies : c \in lv.top
          /\ \A i \in DOMAIN tree.replies[c] :
                comments[tree.replies[c][i]].parentId = c
    /\ \A c \in DOMAIN tree.nested : c \in lv.replies
          /\ \A i \in DOMAIN tree.nested[c] :
                comments[tree.nested[c][i]].parentId = c
    /\ lv.top \cup lv.replies \cup lv.nested =
            {c \in DOMAIN comments : Visible(c, postId)}

C5_ApprovedOnly ==
    (ret.op = "getPostById" /\ ret.outcome = "ok") =>
        C5_Tree(ret.result.comments, ret.args.postId)

(* A returned tree with replies in it, from a table in which an APPROVED   *)
(* comment is left out because its parent, a comment of the post's         *)
(* thread, is not APPROVED                                                 *)
C5_Witness ==
    /\ ret.op = "getPostById" /\ ret.outcome = "ok"
    /\ LET lv == TreeLevels(ret.result.comments) IN
        /\ lv.top # {} /\ lv.replies # {}
        /\ \E c \in DOMAIN comments :
            /\ comments[c].status = "APPROVED"
            /\ comments[c].parentId # NoParent
            /\ comments[comments[c].parentId].status # "APPROVED"
            /\ comments[comments[c].parentId].postId = ret.args.postId
            /\ c \notin lv.top \cup lv.replies \cup lv.nested

----------------------------------------------------------------------------
(* C8: the views of an existing post never decreases, and changes only by  *)
(* the +1 of a getPostById call.                                           *)

C8_ViewsMonotonic ==
    [][\A id \in (DOMAIN posts) \cap (DOMAIN posts') :
        /\ posts'[id].views >= posts[id].views
        /\ posts'[id].views # posts[id].views =>
            /\ posts'[id].views = posts[id].views + 1
            /\ ret'.op = "getPostById"
            /\ ret'.args.postId = id]_vars

----------------------------------------------------------------------------
(* C6: the total getAllPost returns is the number of stored posts that     *)
(* satisfy every active filter: search (title or content contains it,      *)
(* letter case ignored, or it is one of the tags), tags (every requested   *)
(* tag is one of the post's), isFeatured, status, authorId; a filter that  *)
(* is absent, or an empty search, tag list, status or authorId, restricts  *)
(* nothing, and isFeatured = false does restrict.                          *)

Active(args, field) ==
    /\ Has(args, field)
    /\ args[field] # (IF field = "search" THEN Str_empty ELSE "")

C6_Matches(args, row) ==
    /\ Active(args, "search") =>
            \/ \E i \in 1..Len(row.title) : \E j \in i..Len(row.title) :
                    Lower(SubSeq(row.title, i, j)) = Lower(args.search)
            \/ \E i \in 1..Len(row.content) : \E j \in i..Len(row.content) :
                    Lower(SubSeq(row.content, i, j)) = Lower(args.search)
            \/ args.search \in row.tags
    /\ Range(args.tags) \subseteq row.tags
    /\ Has(args, "isFeatured") => row.isFeatured = args.isFeatured
    /\ Active(args, "status") => row.status = args.status
    /\ Active(args, "authorId") => row.authorId = args.authorId

C6_TotalCountsMatches ==
    ret.op = "getAllPost" =>
        /\ ret.outcome = "ok"
        /\ ret.result.pagination.total =
            Cardinality({id \in DOMAIN posts : C6_Matches(ret.args, posts[id])})

(* A call with search, tags, status and isFeatured = false all active has  *)
(* counted one of two stored posts                                         *)
C6_Witness ==
    /\ ret.op = "getAllPost"
    /\ Active(ret.args, "search") /\ Len(ret.args.tags) > 0
    /\ Active(ret.args, "status")
    /\ Has(ret.args, "isFeatured") /\ ~ret.args.isFeatured
    /\ Cardinality(DOMAIN posts) = 2
    /\ ret.result.pagination.total = 1

----------------------------------------------------------------------------
(* C9: getMyPosts throws NotFound, returning no posts, exactly when        *)
(* authorId is the id of no user or of a user who is not ACTIVE; otherwise *)
(* it returns exactly the posts of that author, newest first, with a total *)
(* equal to the number of those posts.                                     *)

C9_User ==
    /\ OneStep("getMyPosts") =>
        /\ ret'.outcome = "NotFound" /\ ret'.result = NoResult
        /\ \/ ret'.args.authorId \notin DOMAIN users
           \/ users[ret'.args.authorId].status # "ACTIVE"
    /\ \A p \in Procs : Passes(p, "getMyPosts_findMany") =>
        /\ reqs'[p].args.authorId \in DOMAIN users
        /\ users[reqs'[p].args.authorId].status = "ACTIVE"

C9_Data ==
    \A p \in Procs :
        (reqs[p].pc = "getMyPosts_findMany" /\ reqs'[p].pc = "getMyPosts_aggregate") =>
            LET data == reqs'[p].result IN
            /\ {data[i].id : i \in DOMAIN data} =
                    {id \in DOMAIN posts : posts[id].authorId = reqs[p].args.authorId}
            /\ Len(data) = Cardinality({data[i].id : i \in DOMAIN data})
            /\ \A i \in DOMAIN data : data[i].row = posts[data[i].id]
            /\ \A i, j \in DOMAIN data :
                    i < j => data[i].row.createdAt >= data[j].row.createdAt

C9_Total ==
    \A p \in Procs : Ends(p, "getMyPosts_aggregate") =>
        /\ ret'.op = "getMyPosts" /\ ret'.outcome = "ok"
        /\ ret'.result.data = reqs[p].result
        /\ ret'.result.total.count.id = Len(ret'.result.data)

C9_MyPosts == [][C9_User /\ C9_Data /\ C9_Total]_vars

----------------------------------------------------------------------------
(* C10: getAllPost's page and total are two reads: the page is a page of   *)
(* the posts that match when findMany runs, the total is the number that   *)
(* match when count runs, and a createPost or deletePost between the two   *)
(* makes them differ (the witness: skip 0, a limit above both, and a page  *)
(* with a number of posts other than the total).                           *)

C10_Page ==
    \A p \in Procs : Passes(p, "getAllPost_count") =>
        LET a == reqs'[p].args
            page == reqs'[p].allPost
            match == {id \in DOMAIN posts : C6_Matches(a, posts[id])}
            left == IF Cardinality(match) > a.skip
                    THEN Cardinality(match) - a.skip ELSE 0 IN
        /\ Len(page) = IF a.limit < left THEN a.limit ELSE left
        /\ \A i \in DOMAIN page :
                page[i].id \in match /\ page[i].row = posts[page[i].id]
        /\ \A i, j \in DOMAIN page : i # j => page[i].id # page[j].id

C10_Total ==
    \A p \in Procs : Ends(p, "getAllPost_count") =>
        /\ ret'.op = "getAllPost" /\ ret'.outcome = "ok"
        /\ ret'.result.data = reqs[p].allPost
        /\ ret'.result.pagination.total =
            Cardinality({id \in DOMAIN posts : C6_Matches(reqs[p].args, posts[id])})

C10_TwoReads == [][C10_Page /\ C10_Total]_vars

C10_Witness ==
    /\ ret.op = "getAllPost" /\ ret.outcome = "ok"
    /\ ret.args.skip = 0
    /\ ret.args.limit > Len(ret.result.data)
    /\ ret.args.limit > ret.result.pagination.total
    /\ Len(ret.result.data) # ret.result.pagination.total

----------------------------------------------------------------------------
(* C7: the post figures one getStats call returns (totalPosts,             *)
(* publishedPosts, draftPosts, archivedPosts, todayPosts, totalViews) are  *)
(* together the figures of one state the post table was in during the      *)
(* call, with totalViews 0 when that state has no posts.                   *)

PostFigures(result) ==
    [f \in {"totalPosts", "publishedPosts", "draftPosts", "archivedPosts",
            "todayPosts", "totalViews"} |-> result[f]]

C7_OneSnapshot ==
    [][\A p \in Procs : Ends(p, "getStats_query") =>
            /\ ret'.op = "getStats" /\ ret'.outcome = "ok"
            /\ PostFigures(ret'.result) \in snaps[p]]_vars

====
